---- MODULE Spec2Model ----
(***************************************************************************)
(* PixelForge: the bounded undo/redo history (app/core/history_manager.py) *)
(* and the editing core that drives it (app/core/image_processor.py,       *)
(* app/core/transform_engine.py, app/utils/image_utils.py).                *)
(*                                                                         *)
(* An image is a record [w, h, px]: its width, its height and its pixel    *)
(* content.  The content is kept symbolically, as the sequence of edits    *)
(* that produced it from a decoded file, so two images are equal exactly   *)
(* when they were produced the same way (numpy's value equality).          *)
(***************************************************************************)
EXTENDS Integers, Sequences, FiniteSets, TLC

VARIABLES
    undo_stack,         \* HistoryManager._undo_stack (oldest first, current last)
    redo_stack,         \* HistoryManager._redo_stack
    max_states,         \* HistoryManager._max_states
    original,           \* ImageProcessor._original
    preview_original,   \* ImageProcessor._preview_original
    processed,          \* ImageProcessor._processed
    file_path,          \* ImageProcessor._file_path
    adjustments,        \* ImageProcessor._adjustments
    filters,            \* ImageProcessor._filters (a dict, in insertion order)
    noise_params,       \* ImageProcessor._noise_params
    last,               \* the call that was made last: its name and how it ended
    before,             \* the state (Self) that call was made in
    calls,              \* how many ImageProcessor methods have been called
    call_args,          \* the arguments of the call that was made last
    activation,         \* the names of the filters in the stack, in the order
                        \* in which each went from absent to present last
    has_task,           \* ProcessingWorker._has_task
    running,            \* ProcessingWorker._running
    should_stop,        \* ProcessingWorker._should_stop
    loops,              \* the executions of ProcessingWorker.process: for each,
                        \* where it stands and the locals of its pipeline run
    requests,           \* how many times request_processing has been called
    batches,            \* how many times a request came with none pending
    runs,               \* how many times process() has called process_preview
    unserved,           \* where the worker stood at each request that no call
                        \* of process_preview has followed yet
    served,             \* the same for the requests the latest call followed
    overlap,            \* the caller-side operations made during a preview run
    signals,            \* the notifications the worker has emitted, in order
    delivered,          \* how many of them the caller thread's slots have handled
    canvas,             \* the image last handed to the canvas (set_image)
    commits,            \* how many times the caller thread has replaced original
    engine_call         \* the call of a FilterEngine or NoiseEngine routine that
                        \* was made last: what it was given and what it gave

guiVars == <<signals, delivered, canvas, commits>>

workerVars == <<has_task, running, should_stop, loops, requests, batches, runs,
                unserved, served, overlap, guiVars, engine_call>>

vars == <<undo_stack, redo_stack, max_states, original, preview_original,
          processed, file_path, adjustments, filters, noise_params,
          last, before, calls, call_args, activation, workerVars>>

procVars == <<original, preview_original, processed, file_path,
              adjustments, filters, noise_params>>

histVars == <<undo_stack, redo_stack, max_states>>

paramVars == <<last, before, call_args, activation>>
requestVars == <<requests, batches, unserved, served>>

----------------------------------------------------------------------------
(* Bounds of the model *)

\* Stands in for MAX_HISTORY_STATES (constants.py: 30): the cap of the undo stack.
MAX_HISTORY_STATES == 3

\* The number of ImageProcessor method calls a behaviour makes
MaxCalls == 5

\* The number of caller-side calls made next to a running worker
MaxEdits == 2

\* The number of request_processing calls a behaviour makes
MaxRequests == 2

\* The number of executions of ProcessingWorker.process a behaviour can start
MaxLoops == 2

\* The number of crops made one after the other
MaxCrops == 3

----------------------------------------------------------------------------
(* Program constants *)

PREVIEW_MAX_WIDTH == 1920
PREVIEW_MAX_HEIGHT == 1080

\* The largest value of a sample (numpy's uint8) and of a filter's slider
Uint8Max == 255
MaxIntensity == 100

----------------------------------------------------------------------------
(* Images *)

\* Python's None, for an image-valued field or result
None == [w |-> 0, h |-> 0, px |-> <<>>]

Edit(op, name, args) == [op |-> op, name |-> name, args |-> args]

Img(w, h, px) == [w |-> w, h |-> h, px |-> px]

Last(s) == s[Len(s)]
Front(s) == SubSeq(s, 1, Len(s) - 1)
Tail1(s) == SubSeq(s, 2, Len(s))

----------------------------------------------------------------------------
(* HistoryManager *)

\* push_state, with the bug of forgetting to evict
HistPushNoEvict(us, rs, ms, image) ==
    IF image = None THEN [u |-> us, r |-> rs]
    ELSE [u |-> Append(us, image), r |-> <<>>]

\* push_state, with the bug of keeping the redo stack
HistPushKeepRedo(us, rs, ms, image) ==
    IF image = None THEN [u |-> us, r |-> rs]
    ELSE LET appended == Append(us, image)
         IN  [u |-> IF Len(appended) > ms THEN Tail1(appended) ELSE appended,
              r |-> rs]

\* push_state(image): the stacks afterwards
HistPush(us, rs, ms, image) ==
    IF image = None THEN [u |-> us, r |-> rs]
    ELSE LET appended == Append(us, image)
         IN  [u |-> IF Len(appended) > ms THEN Tail1(appended) ELSE appended,
              r |-> <<>>]

\* undo, with the bug of dropping the undone state instead of keeping it for redo
HistUndoDrop(us, rs) ==
    IF Len(us) < 2 THEN [u |-> us, r |-> rs, ret |-> None]
    ELSE [u |-> Front(us), r |-> rs, ret |-> Last(Front(us))]

\* undo(): the stacks afterwards and the state returned
HistUndo(us, rs) ==
    IF Len(us) < 2 THEN [u |-> us, r |-> rs, ret |-> None]
    ELSE [u |-> Front(us), r |-> Append(rs, Last(us)), ret |-> Last(Front(us))]

\* redo(): the stacks afterwards and the state returned
HistRedo(us, rs) ==
    IF rs = <<>> THEN [u |-> us, r |-> rs, ret |-> None]
    ELSE [u |-> Append(us, Last(rs)), r |-> Front(rs), ret |-> Last(rs)]

\* can_undo, with the off-by-one of taking one entry for enough
HistCanUndoOne(us) == Len(us) >= 1

HistCanUndo(us) == Len(us) >= 2

HistCanRedo(rs) == Len(rs) > 0

HistUndoCount(us) == IF Len(us) - 1 > 0 THEN Len(us) - 1 ELSE 0

\* clear, with the bug of emptying only the redo stack
HistClearRedoOnly(us, rs) == [u |-> us, r |-> <<>>]

\* clear(): both stacks afterwards
HistClear(us, rs) == [u |-> <<>>, r |-> <<>>]

----------------------------------------------------------------------------
(* Parameters of the editing pipeline *)

AdjustmentKeys ==
    <<"brightness", "contrast", "saturation", "hue", "gamma", "exposure",
      "temperature", "tint", "highlights", "shadows", "clarity", "vibrance",
      "sharpness">>

AdjustmentKeySet == {AdjustmentKeys[i] : i \in 1..Len(AdjustmentKeys)}

\* The dict ImageProcessor.__init__ and _reset_all_params build
DefaultAdjustments == [k \in AdjustmentKeySet |-> IF k = "gamma" THEN 100 ELSE 0]

\* scale is kept in tenths: 10 is the code's 1.0
DefaultNoise == [type |-> "gaussian", intensity |-> 0, monochrome |-> TRUE, scale |-> 10]

NoiseKeys == {"type", "intensity", "monochrome", "scale"}

FilterNames ==
    {"gaussian_blur", "box_blur", "median_blur", "sharpen", "unsharp_mask",
     "edge_detect", "emboss", "sepia", "vintage", "vignette", "hdr_effect",
     "pencil_sketch", "oil_painting", "pixelate", "posterize", "warm_filter",
     "cool_filter", "dramatic"}

NoiseTypes ==
    {"gaussian", "salt_pepper", "poisson", "speckle", "uniform", "film_grain",
     "color_noise"}

\* _reset_all_params, with the bug of leaving the filter stack as it is
ResetAllParamsKeepFilters(s) ==
    [s EXCEPT !.adjustments = DefaultAdjustments,
              !.noise_params = DefaultNoise]

\* _reset_all_params(): the processor state afterwards
ResetAllParams(s) ==
    [s EXCEPT !.adjustments = DefaultAdjustments,
              !.filters = <<>>,
              !.noise_params = DefaultNoise]

\* set_adjustment(key, value)
SetAdjustment(s, key, value) ==
    IF key \in DOMAIN s.adjustments
    THEN [s EXCEPT !.adjustments = [@ EXCEPT ![key] = value]]
    ELSE s

FilterIndex(flt, name) ==
    IF \E i \in 1..Len(flt) : flt[i].name = name
    THEN CHOOSE i \in 1..Len(flt) : flt[i].name = name
    ELSE 0

RemoveAt(seq, i) == SubSeq(seq, 1, i - 1) \o SubSeq(seq, i + 1, Len(seq))

\* set_filter, with the bug of putting a filter whose intensity changes last
SetFilterMoveToEnd(s, name, intensity) ==
    LET i == FilterIndex(s.filters, name)
    IN  IF intensity <= 0
        THEN IF i = 0 THEN s ELSE [s EXCEPT !.filters = RemoveAt(@, i)]
        ELSE [s EXCEPT !.filters =
                Append(IF i = 0 THEN @ ELSE RemoveAt(@, i),
                       [name |-> name, intensity |-> intensity])]

\* set_filter(filter_name, intensity): a dict keeps a key's place when its value
\* is replaced, and puts a new key last
SetFilter(s, name, intensity) ==
    LET i == FilterIndex(s.filters, name)
    IN  IF intensity <= 0
        THEN IF i = 0 THEN s ELSE [s EXCEPT !.filters = RemoveAt(@, i)]
        ELSE IF i = 0
             THEN [s EXCEPT !.filters = Append(@, [name |-> name, intensity |-> intensity])]
             ELSE [s EXCEPT !.filters = [@ EXCEPT ![i].intensity = intensity]]

\* set_noise_params(**kwargs): kwargs is a record; keys the dict lacks are skipped
SetNoiseParams(s, kwargs) ==
    [s EXCEPT !.noise_params =
        [k \in NoiseKeys |-> IF k \in DOMAIN kwargs THEN kwargs[k] ELSE @[k]]]

\* has_pending_changes()
HasPendingChanges(s) ==
    \/ \E k \in DOMAIN s.adjustments : s.adjustments[k] # 0 /\ s.adjustments[k] # 100
    \/ s.filters # <<>>
    \/ s.noise_params.intensity > 0

----------------------------------------------------------------------------
(* create_preview (image_utils.py) *)

Min(a, b) == IF a <= b THEN a ELSE b
Max(a, b) == IF a >= b THEN a ELSE b

FitsPreview(img) == img.w <= PREVIEW_MAX_WIDTH /\ img.h <= PREVIEW_MAX_HEIGHT

\* scale = min(max_width / w, max_height / h); (int(w * scale), int(h * scale)).
\* The quotients are taken exactly; for the sizes this model feeds in, Python's
\* doubles give the same integers.
PreviewSize(img) ==
    IF PREVIEW_MAX_WIDTH * img.h <= PREVIEW_MAX_HEIGHT * img.w
    THEN [w |-> (img.w * PREVIEW_MAX_WIDTH) \div img.w,
          h |-> (img.h * PREVIEW_MAX_WIDTH) \div img.w]
    ELSE [w |-> (img.w * PREVIEW_MAX_HEIGHT) \div img.h,
          h |-> (img.h * PREVIEW_MAX_HEIGHT) \div img.h]

\* cv2.resize raises when a side of the target size is 0
PreviewRaises(img) ==
    /\ img # None
    /\ ~FitsPreview(img)
    /\ (PreviewSize(img).w <= 0 \/ PreviewSize(img).h <= 0)

\* create_preview(img, PREVIEW_MAX_WIDTH, PREVIEW_MAX_HEIGHT), when it returns
CreatePreview(img) ==
    IF img = None THEN None
    ELSE IF FitsPreview(img) THEN img
    ELSE Img(PreviewSize(img).w, PreviewSize(img).h,
             Append(img.px, Edit("area_resize", "", <<PreviewSize(img).w, PreviewSize(img).h>>)))

----------------------------------------------------------------------------
(* TransformEngine *)

\* resize(image, width, height, method)
Resize(image, width, height, method) ==
    IF image = None \/ width <= 0 \/ height <= 0 THEN image
    ELSE Img(width, height, Append(image.px, Edit("resize", method, <<width, height>>)))

\* rotate(image, angle, expand=True) for a multiple of 90 degrees, where
\* |cos| and |sin| are 0 and 1 up to an error int() cuts off
Rotate(image, angle) ==
    IF image = None THEN image
    ELSE IF angle % 180 = 0
         THEN Img(image.w, image.h, Append(image.px, Edit("rotate", "", <<angle>>)))
         ELSE Img(image.h, image.w, Append(image.px, Edit("rotate", "", <<angle>>)))

\* flip_horizontal / flip_vertical
Flip(image, horizontal) ==
    IF image = None THEN image
    ELSE Img(image.w, image.h,
             Append(image.px, Edit("flip", IF horizontal THEN "horizontal" ELSE "vertical", <<>>)))

\* crop(image, x, y, width, height)
Crop(image, x, y, width, height) ==
    IF image = None THEN image
    ELSE LET x1 == Max(0, Min(x, image.w - 1))
             y1 == Max(0, Min(y, image.h - 1))
             x2 == Min(x1 + width, image.w)
             y2 == Min(y1 + height, image.h)
         IN  IF x2 <= x1 \/ y2 <= y1 THEN image
             ELSE IF x1 = 0 /\ y1 = 0 /\ x2 = image.w /\ y2 = image.h THEN image
             ELSE Img(x2 - x1, y2 - y1,
                      Append(image.px, Edit("crop", "", <<x1, y1, x2, y2>>)))

----------------------------------------------------------------------------
(* The pipeline: adjustments, then filters, then noise *)

\* Whether _apply_adjustments changes anything: every step is guarded by its
\* value differing from neutral (sharpness by being positive)
AdjustmentsActive(adj) ==
    \/ \E k \in DOMAIN adj \ {"gamma", "sharpness"} : adj[k] # 0
    \/ adj["gamma"] # 100
    \/ adj["sharpness"] > 0

ApplyAdjustments(image, adj) ==
    IF AdjustmentsActive(adj)
    THEN [image EXCEPT !.px =
            Append(@, Edit("adjust", "", [i \in 1..Len(AdjustmentKeys) |-> adj[AdjustmentKeys[i]]]))]
    ELSE image

\* FilterEngine.apply_filter(image, name, intensity) for intensity > 0
ApplyFilter(image, name, intensity) ==
    IF name \in FilterNames
    THEN [image EXCEPT !.px = Append(@, Edit("filter", name, <<intensity>>))]
    ELSE image

RECURSIVE ApplyFilters(_, _)
\* _apply_filters: the dict's entries in insertion order
ApplyFilters(image, flt) ==
    IF flt = <<>> THEN image
    ELSE ApplyFilters(
            IF flt[1].intensity > 0
            THEN ApplyFilter(image, flt[1].name, flt[1].intensity)
            ELSE image,
            Tail1(flt))

\* _apply_noise: the noise layer is drawn from numpy's global random generator;
\* seed stands for what it draws
ApplyNoise(image, noise, seed) ==
    IF noise.intensity <= 0 THEN image
    ELSE IF noise.type \notin NoiseTypes THEN image
    ELSE [image EXCEPT !.px =
            Append(@, Edit("noise", noise.type,
                           <<noise.intensity, IF noise.monochrome THEN 1 ELSE 0,
                             noise.scale, seed>>))]

\* _run_pipeline, with the bug of adding the noise before the filters
RunPipelineNoiseFirst(s, source, seed) ==
    ApplyFilters(ApplyNoise(ApplyAdjustments(source, s.adjustments), s.noise_params, seed),
                 s.filters)

\* _run_pipeline(source), the image it returns (and stores in _processed)
RunPipeline(s, source, seed) ==
    ApplyNoise(ApplyFilters(ApplyAdjustments(source, s.adjustments), s.filters),
               s.noise_params, seed)

----------------------------------------------------------------------------
(* ImageProcessor: each method as a function of the processor's state s    *)
(* (its fields and those of its HistoryManager), giving the state after    *)
(* the call and how the call ended: ret is "true", "false", "none" (a      *)
(* method without a result returned) or "raised" (an exception left it).   *)

\* The files load_image is called with, and what cv2.imread decodes from each:
\* None for a file that is no image
Files == {"small.png", "big.png", "strip.png", "notes.txt"}

Imread(f) ==
    CASE f = "small.png" -> Img(100, 100, <<Edit("file", f, <<>>)>>)
      [] f = "big.png"   -> Img(3000, 2000, <<Edit("file", f, <<>>)>>)
      [] f = "strip.png" -> Img(5000, 2, <<Edit("file", f, <<>>)>>)
      [] OTHER           -> None

Outcome(s, ret) == [s |-> s, ret |-> ret]

WithHistory(s, h) == [s EXCEPT !.undo_stack = h.u, !.redo_stack = h.r]

\* self._history.push_state(image)
PushState(s, image) ==
    WithHistory(s, HistPush(s.undo_stack, s.redo_stack, s.max_states, image))

\* load_image(file_path)
LoadImage(s, f) ==
    LET image == Imread(f)
        s1 == [s EXCEPT !.original = image, !.file_path = f]
        s2 == [s1 EXCEPT !.preview_original = CreatePreview(image), !.processed = None]
        s3 == WithHistory(s2, HistClear(s2.undo_stack, s2.redo_stack))
    IN  IF image = None THEN Outcome(s, "false")
        ELSE IF PreviewRaises(image) THEN Outcome(s1, "false")
        ELSE Outcome(ResetAllParams(PushState(s3, image)), "true")

\* The lines the transforms share: self._original = image; self._preview_original
\* = create_preview(...); self._history.push_state(self._original)
ReplaceOriginal(s, image) ==
    LET s1 == [s EXCEPT !.original = image]
    IN  IF PreviewRaises(image) THEN Outcome(s1, "raised")
        ELSE Outcome(PushState([s1 EXCEPT !.preview_original = CreatePreview(image)], image),
                     "none")

\* What follows a call that may have raised: the reset runs only if it did not
ThenReset(o) == IF o.ret = "raised" THEN o ELSE Outcome(ResetAllParams(o.s), o.ret)

\* apply_resize(width, height, method)
ApplyResize(s, width, height, method) ==
    IF s.original = None THEN Outcome(s, "none")
    ELSE ThenReset(ReplaceOriginal(s, Resize(s.original, width, height, method)))

\* apply_rotation(angle)
ApplyRotation(s, angle) ==
    IF s.original = None THEN Outcome(s, "none")
    ELSE ReplaceOriginal(s, Rotate(s.original, angle))

\* apply_flip(horizontal)
ApplyFlip(s, horizontal) ==
    IF s.original = None THEN Outcome(s, "none")
    ELSE ReplaceOriginal(s, Flip(s.original, horizontal))

\* apply_crop(x, y, w, h)
ApplyCrop(s, x, y, w, h) ==
    IF s.original = None THEN Outcome(s, "none")
    ELSE ThenReset(ReplaceOriginal(s, Crop(s.original, x, y, w, h)))

\* apply_current_changes()
ApplyCurrentChanges(s, seed) ==
    IF s.original = None THEN Outcome(s, "none")
    ELSE LET result == RunPipeline(s, s.original, seed)
         IN  ThenReset(ReplaceOriginal([s EXCEPT !.processed = result], result))

\* The lines undo and redo share, once the history has given a state
RestoreState(s, state) ==
    LET s1 == [s EXCEPT !.original = state]
    IN  IF PreviewRaises(state) THEN Outcome(s1, "raised")
        ELSE Outcome(ResetAllParams([s1 EXCEPT !.preview_original = CreatePreview(state)]),
                     "true")

\* undo()
Undo(s) ==
    LET h == HistUndo(s.undo_stack, s.redo_stack)
    IN  IF h.ret # None THEN RestoreState(WithHistory(s, h), h.ret)
        ELSE Outcome(WithHistory(s, h), "false")

\* redo()
Redo(s) ==
    LET h == HistRedo(s.undo_stack, s.redo_stack)
    IN  IF h.ret # None THEN RestoreState(WithHistory(s, h), h.ret)
        ELSE Outcome(WithHistory(s, h), "false")

\* process_preview(): ret is "image" when it returns the pipeline's result
ProcessPreview(s, seed) ==
    IF s.preview_original = None THEN Outcome(s, "none")
    ELSE Outcome([s EXCEPT !.processed = RunPipeline(s, s.preview_original, seed)], "image")

\* process_full_resolution()
ProcessFullResolution(s, seed) ==
    IF s.original = None THEN Outcome(s, "none")
    ELSE Outcome([s EXCEPT !.processed = RunPipeline(s, s.original, seed)], "image")

\* save_image(file_path, quality): written is what cv2.imwrite returns
SaveImage(s, seed, written) ==
    LET o == ProcessFullResolution(s, seed)
    IN  IF o.ret = "none" THEN Outcome(o.s, "false")
        ELSE Outcome(o.s, IF written THEN "true" ELSE "false")

\* MainWindow._on_reset_filters: self._processor._filters.clear()
ResetFilters(s) == [s EXCEPT !.filters = <<>>]

----------------------------------------------------------------------------
(* The state machine *)

\* The processor's state, as the methods above take it
Self ==
    [original |-> original, preview_original |-> preview_original,
     processed |-> processed, file_path |-> file_path,
     adjustments |-> adjustments, filters |-> filters,
     noise_params |-> noise_params,
     undo_stack |-> undo_stack, redo_stack |-> redo_stack,
     max_states |-> max_states]

\* A call: its name, the image a HistoryManager method was given (push_state)
\* or gave back (undo, redo), how it ended, and the name of the call before it
Call(op, image, ret, prev) == [op |-> op, image |-> image, ret |-> ret, prev |-> prev]

\* ImageProcessor.__init__ (with HistoryManager.__init__ for the two stacks)
InitProcessor ==
    /\ original = None
    /\ preview_original = None
    /\ processed = None
    /\ file_path = ""
    /\ adjustments = DefaultAdjustments
    /\ filters = <<>>
    /\ noise_params = DefaultNoise
    /\ undo_stack = <<>>
    /\ redo_stack = <<>>
    /\ last = Call("init", None, "none", "")
    /\ calls = 0
    /\ call_args = <<>>
    /\ activation = <<>>

LoopIds == 1..MaxLoops

\* An execution of process() that has not begun, and the locals of a loop
\* iteration before its run: the source and the result so far, the brightness
\* read, the iterator over _filters, the noise intensity read; with them, the
\* parameter states the processor went through during the run, how the
\* iteration ended, which run it makes and how many times original had been
\* replaced when the run began
IdleFrame ==
    [pc |-> "idle", source |-> None, result |-> None, brightness |-> 0,
     it |-> [used |-> 0, pos |-> 0, tombs |-> 0], noise_intensity |-> 0,
     instants |-> {}, outcome |-> "none", run |-> 0, epoch |-> 0]

\* What the canvas shows: an image, and how many times original had been
\* replaced when the image was derived
Shown(image, epoch) == [image |-> image, epoch |-> epoch]

\* No routine of FilterEngine or NoiseEngine has been called on its own
NoEngineCall == [routine |-> "none"]

\* ProcessingWorker.__init__ and ProcessingThread.__init__: nothing runs yet
InitWorkerIdle ==
    /\ has_task = FALSE
    /\ running = TRUE
    /\ should_stop = FALSE
    /\ loops = [w \in LoopIds |-> IdleFrame]
    /\ requests = 0
    /\ batches = 0
    /\ runs = 0
    /\ unserved = {}
    /\ served = {}
    /\ overlap = {}
    /\ signals = <<>>
    /\ delivered = 0
    /\ canvas = Shown(preview_original, 0)
    /\ commits = 0

\* The editor: ImageProcessor() builds HistoryManager() with the default cap
Init ==
    /\ InitProcessor
    /\ InitWorkerIdle
    /\ engine_call = NoEngineCall
    /\ max_states = MAX_HISTORY_STATES
    /\ before = Self

\* A HistoryManager(max_states) of its own, for any cap from 1 up
InitHistory ==
    /\ InitProcessor
    /\ InitWorkerIdle
    /\ engine_call = NoEngineCall
    /\ max_states \in 1..MAX_HISTORY_STATES
    /\ before = Self

\* The names of a filter stack, in its order
StackNames(flt) == [i \in 1..Len(flt) |-> flt[i].name]

RECURSIVE Without(_, _)
\* A sequence of names without those of a set
Without(names, gone) ==
    IF names = <<>> THEN <<>>
    ELSE IF names[1] \in gone THEN Without(Tail1(names), gone)
         ELSE <<names[1]>> \o Without(Tail1(names), gone)

\* The order of activation after a call that turned the stack old into new: the
\* names that left the stack leave it, the names that entered it come last
Activated(order, old, new) ==
    LET was == {old[i].name : i \in 1..Len(old)}
        is == {new[i].name : i \in 1..Len(new)}
    IN  Without(order, was \ is) \o Without(StackNames(new), was)

\* A call of an ImageProcessor method with the arguments a: the processor takes
\* the state the method gives; a method that returns an image returns the one
\* it has stored in _processed
DoesWith(op, a, o) ==
    /\ calls < MaxCalls
    /\ calls' = calls + 1
    /\ before' = Self
    /\ original' = o.s.original
    /\ preview_original' = o.s.preview_original
    /\ processed' = o.s.processed
    /\ file_path' = o.s.file_path
    /\ adjustments' = o.s.adjustments
    /\ filters' = o.s.filters
    /\ noise_params' = o.s.noise_params
    /\ undo_stack' = o.s.undo_stack
    /\ redo_stack' = o.s.redo_stack
    /\ last' = Call(op, IF o.ret = "image" THEN o.s.processed ELSE None, o.ret, last.op)
    /\ call_args' = a
    /\ activation' = Activated(activation, filters, o.s.filters)
    /\ UNCHANGED <<max_states, workerVars>>

\* A call whose arguments no property asks for
Does(op, o) == DoesWith(op, <<>>, o)

\* A call of a HistoryManager method on a manager of its own
HistoryDoes(op, image, h, ret) ==
    /\ undo_stack' = h.u
    /\ redo_stack' = h.r
    /\ before' = Self
    /\ last' = Call(op, image, ret, last.op)
    /\ UNCHANGED <<max_states, procVars, calls, call_args, activation, workerVars>>

\* The images pushed on a HistoryManager of its own, and None
PushInputs == {Imread("small.png"), Imread("big.png"), None}

push_state ==
    \E image \in PushInputs :
        HistoryDoes("push_state", image,
                    HistPush(undo_stack, redo_stack, max_states, image), "none")

history_undo ==
    LET h == HistUndo(undo_stack, redo_stack)
    IN  HistoryDoes("undo", h.ret, h, "none")

history_redo ==
    LET h == HistRedo(undo_stack, redo_stack)
    IN  HistoryDoes("redo", h.ret, h, "none")

NextHistory == push_state \/ history_undo \/ history_redo

SpecHistory == InitHistory /\ [][NextHistory]_vars

AdjustmentInputs == {<<"brightness", 50>>}
FilterInputs == {<<"sepia", 60>>, <<"emboss", 40>>, <<"sepia", 0>>}
NoiseInputs == {[intensity |-> 30]}
NoiseSeeds == {1, 2}
ResizeInputs == {<<50, 50>>, <<3000, 1>>}
RotationInputs == {90}
CropInputs == {<<0, 0, 10, 10>>, <<0, 0, 3000, 1>>}

load_image == \E f \in Files : Does("load_image", LoadImage(Self, f))

set_adjustment ==
    \E kv \in AdjustmentInputs :
        Does("set_adjustment", Outcome(SetAdjustment(Self, kv[1], kv[2]), "none"))

set_filter ==
    \E ni \in FilterInputs :
        Does("set_filter", Outcome(SetFilter(Self, ni[1], ni[2]), "none"))

set_noise_params ==
    \E kwargs \in NoiseInputs :
        Does("set_noise_params", Outcome(SetNoiseParams(Self, kwargs), "none"))

apply_resize ==
    \E wh \in ResizeInputs : Does("apply_resize", ApplyResize(Self, wh[1], wh[2], "lanczos"))

apply_rotation ==
    \E angle \in RotationInputs : Does("apply_rotation", ApplyRotation(Self, angle))

apply_flip ==
    \E horizontal \in BOOLEAN : Does("apply_flip", ApplyFlip(Self, horizontal))

apply_crop ==
    \E r \in CropInputs : Does("apply_crop", ApplyCrop(Self, r[1], r[2], r[3], r[4]))

apply_current_changes ==
    \E seed \in NoiseSeeds : Does("apply_current_changes", ApplyCurrentChanges(Self, seed))

undo == Does("undo", Undo(Self))

redo == Does("redo", Redo(Self))

Next ==
    \/ load_image
    \/ set_adjustment
    \/ set_filter
    \/ set_noise_params
    \/ apply_resize
    \/ apply_rotation
    \/ apply_flip
    \/ apply_crop
    \/ apply_current_changes
    \/ undo
    \/ redo

Spec == Init /\ [][Next]_vars

----------------------------------------------------------------------------
(* The parameters and the pipeline: an editor with a picture open, its     *)
(* sliders moved and its pipeline run                                      *)

\* The variables hold the processor state s
Holds(s) ==
    /\ original = s.original
    /\ preview_original = s.preview_original
    /\ processed = s.processed
    /\ file_path = s.file_path
    /\ adjustments = s.adjustments
    /\ filters = s.filters
    /\ noise_params = s.noise_params
    /\ undo_stack = s.undo_stack
    /\ redo_stack = s.redo_stack
    /\ max_states = s.max_states

\* ImageProcessor(): the state __init__ builds
Fresh ==
    [original |-> None, preview_original |-> None, processed |-> None,
     file_path |-> "", adjustments |-> DefaultAdjustments, filters |-> <<>>,
     noise_params |-> DefaultNoise, undo_stack |-> <<>>, redo_stack |-> <<>>,
     max_states |-> MAX_HISTORY_STATES]

\* The editor after load_image("big.png") has returned true: the preview is
\* smaller than the original
InitPipeline ==
    /\ Holds(LoadImage(Fresh, "big.png").s)
    /\ last = Call("load_image", None, LoadImage(Fresh, "big.png").ret, "init")
    /\ before = Fresh
    /\ calls = 0
    /\ call_args = <<"big.png">>
    /\ activation = <<>>
    /\ InitWorkerIdle
    /\ engine_call = NoEngineCall

\* Slider values and names the callers pass, with a name of each kind that the
\* program does not know
SliderAdjustmentInputs ==
    {<<"brightness", 100>>, <<"brightness", 50>>, <<"gamma", 150>>, <<"zoom", 10>>}
SliderFilterInputs ==
    {<<"sepia", 60>>, <<"sepia", 80>>, <<"sepia", 0>>, <<"emboss", 40>>, <<"glow", 50>>}
SliderNoiseInputs ==
    {[intensity |-> 30], [type |-> "perlin"], [strength |-> 5]}

slide_adjustment ==
    \E kv \in SliderAdjustmentInputs :
        DoesWith("set_adjustment", kv, Outcome(SetAdjustment(Self, kv[1], kv[2]), "none"))

slide_filter ==
    \E ni \in SliderFilterInputs :
        DoesWith("set_filter", ni, Outcome(SetFilter(Self, ni[1], ni[2]), "none"))

slide_noise ==
    \E kwargs \in SliderNoiseInputs :
        DoesWith("set_noise_params", <<kwargs>>, Outcome(SetNoiseParams(Self, kwargs), "none"))

process_preview ==
    \E seed \in NoiseSeeds : Does("process_preview", ProcessPreview(Self, seed))

process_full_resolution ==
    \E seed \in NoiseSeeds : Does("process_full_resolution", ProcessFullResolution(Self, seed))

NextPipeline ==
    \/ slide_adjustment
    \/ slide_filter
    \/ slide_noise
    \/ process_preview
    \/ process_full_resolution

SpecPipeline == InitPipeline /\ [][NextPipeline]_vars

----------------------------------------------------------------------------
(* TransformEngine.crop, through apply_crop: an editor with a picture open *)
(* that is cropped again and again                                         *)

\* The editor after load_image of a picture has returned true
InitCrop ==
    \E f \in {"small.png", "big.png"} :
        /\ Holds(LoadImage(Fresh, f).s)
        /\ last = Call("load_image", None, LoadImage(Fresh, f).ret, "init")
        /\ before = Fresh
        /\ calls = 0
        /\ call_args = <<f>>
        /\ activation = <<>>
        /\ InitWorkerIdle
        /\ engine_call = NoEngineCall

\* Rectangles <<x, y, width, height>>: inside the picture, across each of its
\* edges, beyond each of them, all of it, and empty ones
CropRectangles ==
    {<<10, 10, 20, 20>>, <<0, 0, 100, 100>>, <<-5, 0, 10, 10>>, <<0, -5, 10, 10>>,
     <<90, 90, 20, 20>>, <<100, 0, 10, 10>>, <<0, 100, 10, 10>>, <<-20, 0, 10, 10>>,
     <<0, -20, 10, 10>>, <<0, 0, 0, 10>>, <<0, 0, 10, -3>>, <<5000, 5000, 1, 1>>}

crop ==
    /\ calls < MaxCrops
    /\ \E r \in CropRectangles :
          DoesWith("apply_crop", r, ApplyCrop(Self, r[1], r[2], r[3], r[4]))

NextCrop == crop

SpecCrop == InitCrop /\ [][NextCrop]_vars

----------------------------------------------------------------------------
(* FilterEngine on one sample: what posterize and emboss make of a sample  *)
(* of the image, in numpy's and OpenCV's 8-bit arithmetic                  *)

\* Everything but engine_call
editorVars ==
    <<procVars, histVars, calls, paramVars, has_task, running, should_stop, loops, runs,
      requestVars, overlap, guiVars>>

\* An operation of numpy on uint8 arrays keeps the 8 bits of its result
Wrap(n) == n % (Uint8Max + 1)

\* OpenCV's saturate_cast<uchar>, and np.clip(..., 0, 255)
Saturate(n) == Max(0, Min(n, Uint8Max))

\* FilterEngine._blend: original.copy() at 0, filtered at 1, and in between
\* cv2.addWeighted, which rounds to the nearest sample; at a tie the rounding
\* of the build decides
Blend(v, filtered, intensity) ==
    IF intensity <= 0 THEN {v}
    ELSE IF intensity >= MaxIntensity THEN {filtered}
    ELSE LET n == v * (MaxIntensity - intensity) + filtered * intensity
             lo == n \div MaxIntensity
             r == n % MaxIntensity
         IN  IF 2 * r < MaxIntensity THEN {Saturate(lo)}
             ELSE IF 2 * r > MaxIntensity THEN {Saturate(lo + 1)}
             ELSE {Saturate(lo), Saturate(lo + 1)}

\* posterize, lines 315-316: levels = max(2, int(16 - intensity * 14)) and
\* step = 256 // levels, for the slider value intensity (intensity / 100.0 in
\* the code)
PosterizeStep(intensity) ==
    (Uint8Max + 1) \div Max(2, (16 * MaxIntensity - 14 * intensity) \div MaxIntensity)

\* posterize, lines 317-318: (image // step) * step + step // 2 on a uint8
\* array, each operation keeping 8 bits, then np.clip and astype
Posterized(v, intensity) ==
    LET step == PosterizeStep(intensity)
    IN  Saturate(Wrap(Wrap((v \div step) * step) + step \div 2))

\* emboss, lines 129-130: cv2.filter2D(image, -1, kernel) gives uint8 samples,
\* the convolution saturated; + 128 on that uint8 array keeps 8 bits; then
\* np.clip and astype
Embossed(convolution) == Saturate(Wrap(Saturate(convolution) + 128))

\* What the neighbours of a sample add to its convolution with the emboss
\* kernel, whose weights around the centre sum to -4 and to +4
EmbossNeighbours == {-1020, -300, -129, -128, -1, 0, 1, 100, 127, 128, 1020}

\* Samples at and next to both ends and in the middle
EmbossSamples == {0, 1, 127, 128, 254, 255}

\* A call about to be made: the routine, the sample v, the slider value and,
\* for emboss, the convolution at the sample
SampleCalls ==
    {[routine |-> "posterize", v |-> v, intensity |-> i, convolution |-> 0, returned |-> FALSE] :
        v \in 0..Uint8Max, i \in 1..MaxIntensity}
    \cup
    {[routine |-> "emboss", v |-> vn[1], intensity |-> i, convolution |-> vn[1] + vn[2],
      returned |-> FALSE] :
        vn \in EmbossSamples \X EmbossNeighbours, i \in 1..MaxIntensity}

\* The editor untouched, and a routine about to be called on a sample
InitSample ==
    /\ InitProcessor
    /\ InitWorkerIdle
    /\ max_states = MAX_HISTORY_STATES
    /\ before = Self
    /\ engine_call \in SampleCalls

\* The call returns: the sample fully transformed, and blended with v
EngineReturns(filtered) ==
    /\ ~engine_call.returned
    /\ \E out \in Blend(engine_call.v, filtered, engine_call.intensity) :
          engine_call' = [routine |-> engine_call.routine, v |-> engine_call.v,
                          intensity |-> engine_call.intensity,
                          convolution |-> engine_call.convolution,
                          returned |-> TRUE, filtered |-> filtered, out |-> out]
    /\ UNCHANGED <<editorVars, max_states>>

posterize ==
    /\ engine_call.routine = "posterize"
    /\ EngineReturns(Posterized(engine_call.v, engine_call.intensity))

emboss ==
    /\ engine_call.routine = "emboss"
    /\ EngineReturns(Embossed(engine_call.convolution))

NextSample == posterize \/ emboss

SpecSample == InitSample /\ [][NextSample]_vars

----------------------------------------------------------------------------
(* FilterEngine and NoiseEngine on an image, at any intensity, and the     *)
(* pipeline on any parameters                                              *)

\* A numpy array: the object it is and the image it holds
Array(id, image) == [id |-> id, image |-> image]

\* ndarray.copy(): another object that holds the same image
CopyOf(a) == Array(a.id + 1, a.image)

\* apply_filter, with the bug of letting intensity 0 through to the filter
FilterRoutineBelowZero(a, name, intensity) ==
    IF name \notin FilterNames THEN CopyOf(a)
    ELSE IF intensity < 0 THEN CopyOf(a)
    ELSE Array(a.id + 1, ApplyFilter(a.image, name, intensity))

\* FilterEngine.apply_filter(image, filter_name, intensity): a copy for a name
\* it does not know; each of the 18 routines begins with
\* "if intensity <= 0: return image.copy()" and else builds a new array
FilterRoutine(a, name, intensity) ==
    IF name \notin FilterNames THEN CopyOf(a)
    ELSE IF intensity <= 0 THEN CopyOf(a)
    ELSE Array(a.id + 1, ApplyFilter(a.image, name, intensity))

\* NoiseEngine.apply_noise(image, noise_type, intensity, monochrome, scale):
\* a copy for a type it does not know; each of the 7 routines begins with
\* "if intensity <= 0: return image.copy()" and else builds a new array
NoiseRoutine(a, noise, seed) ==
    IF noise.type \notin NoiseTypes THEN CopyOf(a)
    ELSE IF noise.intensity <= 0 THEN CopyOf(a)
    ELSE Array(a.id + 1, ApplyNoise(a.image, noise, seed))

\* _run_pipeline(source) on the parameters p: source.copy() first, and the
\* result is the array the last stage gave
PipelineRoutine(a, p, seed) == Array(a.id + 1, RunPipeline(p, a.image, seed))

\* The intensities the routines are called with: below zero, zero, above
RoutineIntensities == {-10, 0, 30}

\* The arrays they are given
RoutineArrays == {Array(1, Imread("small.png")), Array(1, Imread("big.png"))}

\* The parameters the pipeline is run on: each kind neutral or not
PipelineParams ==
    {[adjustments |-> adj, filters |-> flt, noise_params |-> noise] :
        adj \in {DefaultAdjustments, [DefaultAdjustments EXCEPT !["brightness"] = 50]},
        flt \in {<<>>, <<[name |-> "sepia", intensity |-> 60]>>},
        noise \in {DefaultNoise, [DefaultNoise EXCEPT !.intensity = 30]}}

\* A call about to be made
RoutineCalls ==
    {[routine |-> "filter", name |-> name, intensity |-> i, given |-> a, seed |-> 1,
      params |-> <<>>, returned |-> FALSE] :
        name \in FilterNames \cup {"glow"}, i \in RoutineIntensities, a \in RoutineArrays}
    \cup
    {[routine |-> "noise", name |-> type, intensity |-> i, given |-> a, seed |-> seed,
      params |-> <<>>, returned |-> FALSE] :
        type \in NoiseTypes \cup {"perlin"}, i \in RoutineIntensities, a \in RoutineArrays,
        seed \in NoiseSeeds}
    \cup
    {[routine |-> "pipeline", name |-> "", intensity |-> 0, given |-> a, seed |-> seed,
      params |-> p, returned |-> FALSE] :
        a \in RoutineArrays, seed \in NoiseSeeds, p \in PipelineParams}

\* The editor untouched, and a routine about to be called on an array
InitRoutine ==
    /\ InitProcessor
    /\ InitWorkerIdle
    /\ max_states = MAX_HISTORY_STATES
    /\ before = Self
    /\ engine_call \in RoutineCalls

\* The call returns the array result; the array it was given is as it was,
\* no routine writing into its argument
RoutineReturns(result) ==
    /\ ~engine_call.returned
    /\ engine_call' = [routine |-> engine_call.routine, name |-> engine_call.name,
                       intensity |-> engine_call.intensity, given |-> engine_call.given,
                       seed |-> engine_call.seed, params |-> engine_call.params,
                       returned |-> TRUE, result |-> result,
                       given_after |-> engine_call.given]
    /\ UNCHANGED <<editorVars, max_states>>

apply_filter ==
    /\ engine_call.routine = "filter"
    /\ RoutineReturns(FilterRoutine(engine_call.given, engine_call.name, engine_call.intensity))

apply_noise ==
    /\ engine_call.routine = "noise"
    /\ RoutineReturns(NoiseRoutine(engine_call.given,
                                   [DefaultNoise EXCEPT !.type = engine_call.name,
                                                        !.intensity = engine_call.intensity],
                                   engine_call.seed))

run_pipeline ==
    /\ engine_call.routine = "pipeline"
    /\ RoutineReturns(PipelineRoutine(engine_call.given, engine_call.params, engine_call.seed))

NextRoutine == apply_filter \/ apply_noise \/ run_pipeline

SpecRoutine == InitRoutine /\ [][NextRoutine]_vars

----------------------------------------------------------------------------
(* ProcessingWorker and ProcessingThread: the loop of process() on the     *)
(* worker thread, next to the caller thread that sets parameters, asks for *)
(* previews and commits.  The mutex is held only inside request_processing, *)
(* stop and lines 48-58 of process(), which are single steps here; waiting *)
(* on the condition gives the mutex up and is a position of its own.       *)

\* The positions of process() inside process_preview
InFlightPcs == {"adjust1", "adjust2", "filters", "next", "noise1", "noise2", "store"}

InFlight(f) == f.pc \in InFlightPcs

SomeInFlight == \E w \in LoopIds : InFlight(loops[w])

\* QThread.isRunning, for the execution of process() the thread carries
IsRunning(f) == f.pc \notin {"idle", "done"}

\* ProcessingThread.start, with the bug of starting whatever is running
StartThreadUnguarded(lps) ==
    IF \E w \in LoopIds : lps[w].pc = "idle"
    THEN [lps EXCEPT ![CHOOSE w \in LoopIds :
                         /\ lps[w].pc = "idle"
                         /\ \A v \in LoopIds : lps[v].pc = "idle" => w <= v].pc = "loop"]
    ELSE lps

\* ProcessingThread.start: the thread starts, and with it process(), only if
\* it is not running
StartThread(lps) ==
    IF \E w \in LoopIds : IsRunning(lps[w]) THEN lps
    ELSE IF \E w \in LoopIds : lps[w].pc = "idle"
    THEN [lps EXCEPT ![CHOOSE w \in LoopIds :
                         /\ lps[w].pc = "idle"
                         /\ \A v \in LoopIds : lps[v].pc = "idle" => w <= v].pc = "loop"]
    ELSE lps

\* QWaitCondition.wakeOne, with the bug of waking nobody
WakeNone(lps) == {lps}

\* QWaitCondition.wakeOne: one of the executions waiting, if any, wakes up
WakeOne(lps) ==
    IF \E w \in LoopIds : lps[w].pc = "waiting"
    THEN {[lps EXCEPT ![w].pc = "woken"] : w \in {v \in LoopIds : lps[v].pc = "waiting"}}
    ELSE {lps}

\* Line 57, with the bug of leaving the flag as it is
TakeTaskKeep(flag) == flag

\* Line 57: self._has_task = False
TakeTask(flag) == FALSE

\* Lines 47-58, with the bug of looking at the task before the stop
LoopStepTaskFirst(flag, run) ==
    IF flag THEN "taken"
    ELSE IF ~run THEN "done"
    ELSE "waiting"

\* Lines 47-58 of process(), at the top of the loop or woken up: where it goes
LoopStep(flag, run) ==
    IF ~run THEN "done"
    ELSE IF ~flag THEN "waiting"
    ELSE "taken"

\* A notification: its signal, the run of process() that emitted it, the image
\* it carries, how many times original had been replaced when that run began,
\* and whether stop() had been called when it was emitted
Signal(name, f, image, stopped) ==
    [name |-> name, run |-> f.run, image |-> image, epoch |-> f.epoch,
     stopped |-> stopped]

\* Line 63, with the bug of not announcing the run
EmitStartedNever(log, f, stopped) == log

\* Line 63: self.processing_started.emit()
EmitStarted(log, f, stopped) ==
    Append(log, Signal("processing_started", f, None, stopped))

\* Line 65: the result is delivered if there is one and no stop has come
Deliverable(result, stop) == result # None /\ ~stop

\* Line 66: self.processing_finished.emit(result)
EmitFinished(log, f, stopped) ==
    Append(log, Signal("processing_finished", f, f.result, stopped))

\* Lines 67-68, with the bug of swallowing the exception
EmitErrorNever(log, f, stopped) == log

\* Lines 67-68: self.error_occurred.emit(str(e))
EmitError(log, f, stopped) ==
    Append(log, Signal("error_occurred", f, None, stopped))

\* Whether a MainWindow handler, after the processor call op that ended with
\* ret, has a new original at hand and shows its preview
UpdatesCanvas(op, ret) ==
    \/ op = "apply_current_changes" /\ ret = "none"
    \/ op \in {"undo", "redo"} /\ ret = "true"

\* iter(self._filters.items()): the size it expects, how many entries it has
\* passed that are still there, and how many that have been removed since
IterNew(flt) == [used |-> Len(flt), pos |-> 0, tombs |-> 0]

\* next() on the iterator: RuntimeError if the dict changed its size, else the
\* next entry in the dict, or the end
IterNext(it, flt) ==
    IF Len(flt) # it.used THEN [kind |-> "error", it |-> it]
    ELSE IF it.pos >= Len(flt) THEN [kind |-> "stop", it |-> it]
    ELSE [kind |-> "item", it |-> [it EXCEPT !.pos = @ + 1]]

\* The iterator after the caller has popped the j-th entry of the dict: the
\* entry's slot stays in the table, empty
IterAfterPop(it, j) ==
    IF j <= it.pos THEN [it EXCEPT !.pos = @ - 1, !.tombs = @ + 1] ELSE it

\* The iterator after the caller has cleared the dict: the table is a new one,
\* and the iterator stands as far into it as it stood in the old one
IterAfterClear(it) == [it EXCEPT !.pos = @ + it.tombs, !.tombs = 0]

\* The iterator after a call by the caller that turned the dict old into new
IterAfterCall(it, op, old, new) ==
    IF new = old THEN it
    ELSE IF op = "set_filter"
         THEN IF Len(new) < Len(old)
              THEN IterAfterPop(it, CHOOSE j \in 1..Len(old) : RemoveAt(old, j) = new)
              ELSE it
         ELSE IterAfterClear(it)

\* The parameters of a processor state, as the pipeline takes them
ParamsOf(s) ==
    [adjustments |-> s.adjustments, filters |-> s.filters, noise_params |-> s.noise_params]

\* The caller-side operations that run the full-resolution pipeline or
\* replace the processor's state
Committing ==
    {"save_image", "apply_current_changes", "undo", "redo", "load_image",
     "apply_resize", "apply_rotation", "apply_flip", "apply_crop"}

\* The editor with "small.png" open, the sepia filter at 60 and the noise at
\* 30, its worker built and its thread not started
InitWorker ==
    LET opened == LoadImage(Fresh, "small.png").s
        filtered == SetFilter(opened, "sepia", 60)
    IN  /\ Holds(SetNoiseParams(filtered, [intensity |-> 30]))
        /\ last = Call("set_noise_params", None, "none", "set_filter")
        /\ before = filtered
        /\ calls = 0
        /\ call_args = <<[intensity |-> 30]>>
        /\ activation = <<"sepia">>
        /\ InitWorkerIdle
        /\ engine_call = NoEngineCall


\* A call on the caller thread, next to the worker: a run in flight meets the
\* state the call leaves
CallerDoes(op, o) ==
    /\ calls < MaxEdits
    /\ calls' = calls + 1
    /\ original' = o.s.original
    /\ preview_original' = o.s.preview_original
    /\ processed' = o.s.processed
    /\ file_path' = o.s.file_path
    /\ adjustments' = o.s.adjustments
    /\ filters' = o.s.filters
    /\ noise_params' = o.s.noise_params
    /\ undo_stack' = o.s.undo_stack
    /\ redo_stack' = o.s.redo_stack
    /\ loops' = [w \in LoopIds |->
                    IF InFlight(loops[w])
                    THEN [loops[w] EXCEPT
                            !.instants = @ \cup {ParamsOf(o.s)},
                            !.it = IF loops[w].pc = "next"
                                   THEN IterAfterCall(@, op, filters, o.s.filters)
                                   ELSE @]
                    ELSE loops[w]]
    /\ overlap' = IF SomeInFlight /\ op \in Committing THEN overlap \cup {op} ELSE overlap
    /\ commits' = IF UpdatesCanvas(op, o.ret) THEN commits + 1 ELSE commits
    /\ canvas' = IF UpdatesCanvas(op, o.ret) /\ o.s.preview_original # None
                 THEN Shown(o.s.preview_original, commits')
                 ELSE canvas
    /\ UNCHANGED <<max_states, paramVars, engine_call, has_task, running, should_stop, runs, requestVars,
                   signals, delivered>>

\* Where the worker stands when a request comes
Position ==
    IF SomeInFlight THEN "inflight"
    ELSE IF \E w \in LoopIds : loops[w].pc = "waiting" THEN "waiting"
    ELSE "elsewhere"

\* How many times line 57 has been passed
Takes == runs + Cardinality({w \in LoopIds : loops[w].pc = "taken"})

thread_start ==
    /\ loops' = StartThread(loops)
    /\ UNCHANGED <<procVars, histVars, calls, paramVars, engine_call, has_task, running, should_stop,
                   runs, requestVars, overlap, guiVars>>

request_processing ==
    /\ requests < MaxRequests
    /\ requests' = requests + 1
    /\ has_task' = TRUE
    /\ should_stop' = FALSE
    /\ loops' \in WakeOne(loops)
    /\ batches' = IF batches > Takes THEN batches ELSE batches + 1
    /\ unserved' = unserved \cup {Position}
    /\ UNCHANGED <<procVars, histVars, calls, paramVars, engine_call, running, runs, served, overlap,
                   guiVars>>

worker_stop ==
    /\ running
    /\ running' = FALSE
    /\ should_stop' = TRUE
    /\ loops' \in WakeOne(loops)
    /\ UNCHANGED <<procVars, histVars, calls, paramVars, engine_call, has_task, runs, requestVars, overlap,
                   guiVars>>

\* The worker's step of execution w changes its frame to f
WorkerDoes(w, f) ==
    /\ loops' = [loops EXCEPT ![w] = f]
    /\ UNCHANGED <<histVars, calls, paramVars, engine_call, running, should_stop, requests, batches, overlap,
                   delivered, canvas, commits>>

\* Lines 47-58: leave, wait or take the task
w_loop(w) ==
    /\ loops[w].pc \in {"loop", "woken"}
    /\ LET to == LoopStep(has_task, running)
       IN  /\ WorkerDoes(w, [IdleFrame EXCEPT !.pc = to])
           /\ has_task' = IF to = "taken" THEN TakeTask(has_task) ELSE has_task
    /\ UNCHANGED <<procVars, runs, unserved, served, signals>>

\* Lines 61-64 and 168-170, 188: processing_started is emitted, process_preview
\* is called and, with a preview at hand, copies it
w_begin(w) ==
    /\ loops[w].pc = "taken"
    /\ runs' = runs + 1
    /\ served' = unserved
    /\ unserved' = {}
    /\ LET f == [IdleFrame EXCEPT !.run = runs + 1, !.epoch = commits]
       IN  /\ signals' = EmitStarted(signals, f, ~running)
           /\ IF preview_original = None
              THEN WorkerDoes(w, [f EXCEPT !.pc = "loop", !.outcome = "nothing"])
              ELSE WorkerDoes(w, [f EXCEPT !.pc = "adjust1",
                                           !.source = preview_original,
                                           !.result = preview_original,
                                           !.instants = {ParamsOf(Self)}])
    /\ UNCHANGED <<procVars, has_task>>

\* Line 210: the first of the adjustments is read
w_adjust_first(w) ==
    /\ loops[w].pc = "adjust1"
    /\ WorkerDoes(w, [loops[w] EXCEPT !.pc = "adjust2",
                                      !.brightness = adjustments["brightness"]])
    /\ UNCHANGED <<procVars, has_task, runs, unserved, served, signals>>

\* Lines 211-307: the other adjustments are read and all are applied.  The
\* callers of this specification change no adjustment but brightness, so what
\* these reads see does not depend on how they fall between the caller's steps
w_adjust_rest(w) ==
    /\ loops[w].pc = "adjust2"
    /\ WorkerDoes(w, [loops[w] EXCEPT
            !.pc = "filters",
            !.result = ApplyAdjustments(@, [adjustments EXCEPT
                                              !["brightness"] = loops[w].brightness])])
    /\ UNCHANGED <<procVars, has_task, runs, unserved, served, signals>>

\* Lines 348-351: the iterator is made on entering the loop; it gives the next
\* filter, which is applied, or ends the loop, or raises RuntimeError, which
\* process() catches (lines 67-68) to emit error_occurred
w_filter_next(w) ==
    /\ loops[w].pc \in {"filters", "next"}
    /\ LET it == IF loops[w].pc = "filters" THEN IterNew(filters) ELSE loops[w].it
           n == IterNext(it, filters)
           entry == filters[n.it.pos]
       IN  CASE n.kind = "error" ->
                  /\ WorkerDoes(w, [loops[w] EXCEPT !.pc = "loop", !.outcome = "error"])
                  /\ signals' = EmitError(signals, loops[w], ~running)
             [] n.kind = "stop" ->
                  /\ WorkerDoes(w, [loops[w] EXCEPT !.pc = "noise1"])
                  /\ UNCHANGED signals
             [] OTHER ->
                  /\ WorkerDoes(w, [loops[w] EXCEPT
                        !.pc = "next",
                        !.it = n.it,
                        !.result = IF entry.intensity > 0
                                   THEN ApplyFilter(@, entry.name, entry.intensity)
                                   ELSE @])
                  /\ UNCHANGED signals
    /\ UNCHANGED <<procVars, has_task, runs, unserved, served>>

\* Lines 356-358: the noise intensity is read
w_noise_first(w) ==
    /\ loops[w].pc = "noise1"
    /\ WorkerDoes(w, [loops[w] EXCEPT
            !.pc = IF noise_params.intensity <= 0 THEN "store" ELSE "noise2",
            !.noise_intensity = noise_params.intensity])
    /\ UNCHANGED <<procVars, has_task, runs, unserved, served, signals>>

\* Lines 360-366: the other noise parameters are read and the noise is added
w_noise_rest(w) ==
    /\ loops[w].pc = "noise2"
    /\ \E seed \in NoiseSeeds :
          WorkerDoes(w, [loops[w] EXCEPT
            !.pc = "store",
            !.result = ApplyNoise(@, [noise_params EXCEPT
                                        !.intensity = loops[w].noise_intensity], seed)])
    /\ UNCHANGED <<procVars, has_task, runs, unserved, served, signals>>

\* Lines 199-200 and 65: the result is stored and returned, and _should_stop
\* is read, with no lock held: the result is to be emitted unless a stop has
\* come
w_return(w) ==
    /\ loops[w].pc = "store"
    /\ processed' = loops[w].result
    /\ IF Deliverable(loops[w].result, should_stop)
       THEN WorkerDoes(w, [loops[w] EXCEPT !.pc = "emit"])
       ELSE WorkerDoes(w, [loops[w] EXCEPT !.pc = "loop", !.outcome = "dropped"])
    /\ UNCHANGED <<original, preview_original, file_path, adjustments, filters,
                   noise_params, has_task, runs, unserved, served, signals>>

\* Line 66: processing_finished is emitted with the result
w_emit(w) ==
    /\ loops[w].pc = "emit"
    /\ signals' = EmitFinished(signals, loops[w], ~running)
    /\ WorkerDoes(w, [loops[w] EXCEPT !.pc = "loop", !.outcome = "finished"])
    /\ UNCHANGED <<procVars, has_task, runs, unserved, served>>

WorkerStep ==
    \E w \in LoopIds :
        \/ w_loop(w)
        \/ w_begin(w)
        \/ w_adjust_first(w)
        \/ w_adjust_rest(w)
        \/ w_filter_next(w)
        \/ w_noise_first(w)
        \/ w_noise_rest(w)
        \/ w_return(w)
        \/ w_emit(w)

\* What the caller thread does to the processor while the worker lives
EditAdjustmentInputs == {<<"brightness", 50>>}
EditFilterInputs == {<<"sepia", 80>>, <<"emboss", 40>>, <<"sepia", 0>>}
EditNoiseInputs == {[intensity |-> 0]}

on_adjustment_changed ==
    \E kv \in EditAdjustmentInputs :
        CallerDoes("set_adjustment", Outcome(SetAdjustment(Self, kv[1], kv[2]), "none"))

on_filter_changed ==
    \E ni \in EditFilterInputs :
        CallerDoes("set_filter", Outcome(SetFilter(Self, ni[1], ni[2]), "none"))

on_noise_changed ==
    \E kwargs \in EditNoiseInputs :
        CallerDoes("set_noise_params", Outcome(SetNoiseParams(Self, kwargs), "none"))

on_reset_filters == CallerDoes("reset_filters", Outcome(ResetFilters(Self), "none"))

on_apply_changes ==
    \E seed \in NoiseSeeds :
        CallerDoes("apply_current_changes", ApplyCurrentChanges(Self, seed))

on_undo == CallerDoes("undo", Undo(Self))

on_save ==
    \E seed \in NoiseSeeds : \E written \in BOOLEAN :
        CallerDoes("save_image", SaveImage(Self, seed, written))

NextWorker ==
    \/ thread_start
    \/ request_processing
    \/ worker_stop
    \/ WorkerStep
    \/ on_adjustment_changed
    \/ on_filter_changed
    \/ on_noise_changed
    \/ on_reset_filters
    \/ on_apply_changes
    \/ on_undo
    \/ on_save

SpecWorker == InitWorker /\ [][NextWorker]_vars

\* The worker and the requests alone, with the parameters left as they are
NextSchedule ==
    \/ thread_start
    \/ request_processing
    \/ worker_stop
    \/ WorkerStep

SpecSchedule == InitWorker /\ [][NextSchedule]_vars

\* The worker thread is scheduled again and again, and each of its steps ends
SpecScheduleLive == SpecSchedule /\ WF_vars(WorkerStep)

\* The caller turns on a filter that was off
on_filter_added ==
    CallerDoes("set_filter", Outcome(SetFilter(Self, "emboss", 40), "none"))

\* The worker next to a caller that turns a filter on: the runs that fail are
\* those whose loop over _filters meets a dict of another size
NextFailure ==
    \/ thread_start
    \/ request_processing
    \/ worker_stop
    \/ WorkerStep
    \/ on_filter_added

SpecFailure == InitWorker /\ [][NextFailure]_vars

SpecFailureLive == SpecFailure /\ WF_vars(WorkerStep)

\* The caller thread's event loop hands the oldest notification not handled
\* yet to its slot: _on_processing_finished gives the result to the canvas, the
\* other two slots leave the canvas alone
gui_deliver ==
    /\ delivered < Len(signals)
    /\ delivered' = delivered + 1
    /\ LET e == signals[delivered + 1]
       IN  canvas' = IF e.name = "processing_finished"
                     THEN Shown(e.image, e.epoch)
                     ELSE canvas
    /\ UNCHANGED <<procVars, histVars, calls, paramVars, engine_call, has_task, running, should_stop,
                   loops, runs, requestVars, overlap, signals, commits>>

\* The worker next to a caller that commits and undoes, and whose event loop
\* handles the worker's notifications
NextCanvas ==
    \/ thread_start
    \/ request_processing
    \/ WorkerStep
    \/ on_apply_changes
    \/ on_undo
    \/ gui_deliver

SpecCanvas == InitWorker /\ [][NextCanvas]_vars

----------------------------------------------------------------------------
(* Claims about HistoryManager, checked under SpecHistory *)

\* The parameters of a processor state
Params(s) == <<s.adjustments, s.filters, s.noise_params>>

DefaultParams == <<DefaultAdjustments, <<>>, DefaultNoise>>

\* The last n entries of a sequence
Newest(seq, n) == IF Len(seq) <= n THEN seq ELSE SubSeq(seq, Len(seq) - n + 1, Len(seq))

\* C1: with max_states = N the undo stack never holds more than N entries and
\* undo_count never exceeds N - 1; a push_state onto a stack of N entries
\* removes exactly the oldest and keeps the N newest in order.
C1_HistoryCap ==
    /\ Len(undo_stack) <= max_states
    /\ HistUndoCount(undo_stack) <= max_states - 1
    /\ (last.op = "push_state" /\ last.image # None)
        => undo_stack = Newest(Append(before.undo_stack, last.image), max_states)
    /\ (last.op = "push_state" /\ last.image # None
            /\ Len(before.undo_stack) = max_states)
        => undo_stack = Append(Tail1(before.undo_stack), last.image)

\* A push onto a full stack of two or more entries whose oldest two differ
C1_Witness ==
    /\ last.op = "push_state"
    /\ last.image # None
    /\ max_states >= 2
    /\ Len(before.undo_stack) = max_states
    /\ before.undo_stack[1] # before.undo_stack[2]

\* C2: when the undo stack is [..., A, B], undo() returns A, and a redo() right
\* after it returns B and leaves both stacks as they were before the undo.
C2_UndoRedoRoundTrip ==
    [][(last.op = "undo" /\ Len(before.undo_stack) >= 2 /\ last'.op = "redo")
        => /\ last.image = before.undo_stack[Len(before.undo_stack) - 1]
           /\ last'.image = Last(before.undo_stack)
           /\ undo_stack' = before.undo_stack
           /\ redo_stack' = before.redo_stack]_vars

\* A redo right after an undo, where the two states differ
C2_Witness ==
    /\ last.op = "redo"
    /\ last.prev = "undo"
    /\ last.image # None
    /\ Len(undo_stack) >= 2
    /\ undo_stack[Len(undo_stack) - 1] # last.image

\* C3: right after any push_state of a non-null image the redo stack is empty:
\* can_redo() is false and redo() returns none.
C3_PushClearsRedo ==
    (last.op = "push_state" /\ last.image # None)
        => /\ redo_stack = <<>>
           /\ ~HistCanRedo(redo_stack)
           /\ HistRedo(undo_stack, redo_stack).ret = None

\* A push made after two undo calls
C3_Witness ==
    /\ last.op = "push_state"
    /\ last.image # None
    /\ Len(before.redo_stack) >= 2

\* C4: undo() on fewer than 2 entries and redo() on an empty redo stack return
\* none and change neither stack; can_undo() (can_redo()) is true exactly when
\* undo() (redo()) would return a state.
C4_HistoryGuards ==
    /\ (last.op = "undo" /\ Len(before.undo_stack) < 2)
        => /\ last.image = None
           /\ undo_stack = before.undo_stack
           /\ redo_stack = before.redo_stack
    /\ (last.op = "redo" /\ before.redo_stack = <<>>)
        => /\ last.image = None
           /\ undo_stack = before.undo_stack
           /\ redo_stack = before.redo_stack
    /\ last.op = "undo" => (HistCanUndo(before.undo_stack) <=> last.image # None)
    /\ last.op = "redo" => (HistCanRedo(before.redo_stack) <=> last.image # None)
    /\ HistCanUndo(undo_stack) <=> HistUndo(undo_stack, redo_stack).ret # None
    /\ HistCanRedo(redo_stack) <=> HistRedo(undo_stack, redo_stack).ret # None

\* An undo refused on a stack of exactly one entry
C4_Witness ==
    /\ last.op = "undo"
    /\ Len(before.undo_stack) = 1
    /\ last.image = None

----------------------------------------------------------------------------
(* Claims about ImageProcessor, checked under Spec *)

\* The parts of the processor state a caller can tell apart
Core(s) ==
    <<s.original, s.preview_original, s.file_path, s.undo_stack, s.redo_stack,
      s.adjustments, s.filters, s.noise_params>>

\* has_image, in a processor whose history holds a state: some load_image has
\* returned true
ImageLoaded(s) == s.original # None /\ s.undo_stack # <<>>

\* The undo stack after exactly one push of image onto the stack of state s
PushedOnce(s, image) == Newest(Append(s.undo_stack, image), s.max_states)

\* C5: a load_image that returns true leaves exactly one undo entry, equal to
\* the loaded image, an empty redo stack (can_undo and can_redo false), and
\* all adjustments, filters and noise parameters at their defaults.
C5_LoadResets ==
    (last.op = "load_image" /\ last.ret = "true")
        => /\ original = Imread(file_path)
           /\ undo_stack = <<original>>
           /\ redo_stack = <<>>
           /\ ~HistCanUndo(undo_stack)
           /\ ~HistCanRedo(redo_stack)
           /\ Params(Self) = DefaultParams

\* A load that succeeded over an undone edit and an active filter
C5_Witness ==
    /\ last.op = "load_image"
    /\ last.ret = "true"
    /\ before.original # None
    /\ before.redo_stack # <<>>
    /\ before.filters # <<>>

\* C6: whenever load_image returns false, original, previewOriginal, the file
\* path, the history stacks and all parameters are as they were before.
C6_FailedLoadChangesNothing ==
    (last.op = "load_image" /\ last.ret = "false") => Core(Self) = Core(before)

\* C7: apply_current_changes with an image loaded makes the pipeline's output
\* for the parameters in force the new original, pushes exactly one history
\* entry equal to it and resets all parameters, so that has_pending_changes()
\* is false and an undo right after restores the original of before.
C7_ApplyCommits ==
    (last.op = "apply_current_changes" /\ ImageLoaded(before))
        => /\ \E seed \in NoiseSeeds :
                original = RunPipeline(before, before.original, seed)
           /\ undo_stack = PushedOnce(before, original)
           /\ Params(Self) = DefaultParams
           /\ ~HasPendingChanges(Self)
           /\ Undo(Self).ret = "true"
           /\ Undo(Self).s.original = before.original

\* C8: undo (redo), when the history can undo (redo), returns true, makes the
\* state the history returns the original, regenerates the preview from it
\* and resets all parameters; when it cannot, it returns false and changes
\* nothing.
C8_UndoRedo ==
    /\ last.op = "undo" =>
        IF HistCanUndo(before.undo_stack)
        THEN /\ last.ret = "true"
             /\ original = before.undo_stack[Len(before.undo_stack) - 1]
             /\ undo_stack = Front(before.undo_stack)
             /\ redo_stack = Append(before.redo_stack, Last(before.undo_stack))
             /\ preview_original = CreatePreview(original)
             /\ Params(Self) = DefaultParams
        ELSE /\ last.ret = "false"
             /\ Core(Self) = Core(before)
    /\ last.op = "redo" =>
        IF HistCanRedo(before.redo_stack)
        THEN /\ last.ret = "true"
             /\ original = Last(before.redo_stack)
             /\ undo_stack = Append(before.undo_stack, original)
             /\ redo_stack = Front(before.redo_stack)
             /\ preview_original = CreatePreview(original)
             /\ Params(Self) = DefaultParams
        ELSE /\ last.ret = "false"
             /\ Core(Self) = Core(before)

\* A redo that succeeded with a filter active and brought back another image
C8_Witness ==
    /\ last.op = "redo"
    /\ last.ret = "true"
    /\ before.filters # <<>>
    /\ original # before.original

\* C9: apply_resize and apply_crop with an image loaded replace original, push
\* exactly one history entry and reset all parameters; with no image loaded
\* they change nothing.
C9_ResizeCropCommit ==
    /\ last.op = "apply_resize" /\ before.original # None
        => \E wh \in ResizeInputs :
                original = Resize(before.original, wh[1], wh[2], "lanczos")
    /\ last.op = "apply_crop" /\ before.original # None
        => \E r \in CropInputs :
                original = Crop(before.original, r[1], r[2], r[3], r[4])
    /\ (last.op \in {"apply_resize", "apply_crop"} /\ ImageLoaded(before))
        => /\ undo_stack = PushedOnce(before, original)
           /\ Params(Self) = DefaultParams
    /\ (last.op \in {"apply_resize", "apply_crop"} /\ before.original = None)
        => Core(Self) = Core(before)

\* C10: apply_rotation and apply_flip with an image loaded replace original
\* and push exactly one history entry, and leave the adjustments, the filter
\* stack (contents and order) and the noise parameters as they were.
C10_RotationFlipKeepParams ==
    /\ last.op = "apply_rotation" /\ before.original # None
        => \E angle \in RotationInputs : original = Rotate(before.original, angle)
    /\ last.op = "apply_flip" /\ before.original # None
        => \E horizontal \in BOOLEAN : original = Flip(before.original, horizontal)
    /\ (last.op \in {"apply_rotation", "apply_flip"} /\ ImageLoaded(before))
        => /\ undo_stack = PushedOnce(before, original)
           /\ Params(Self) = Params(before)

----------------------------------------------------------------------------
(* Claims about the parameters and the pipeline, checked under SpecPipeline *)

\* What a pipeline run adds to its source: the edits after the source's own
PipelineEdits(s, source, seed) ==
    LET result == RunPipeline(s, source, seed)
    IN  SubSeq(result.px, Len(source.px) + 1, Len(result.px))

IsFilterEdit(e) == e.op = "filter"
IsNoiseEdit(e) == e.op = "noise"
IsAdjustEdit(e) == e.op = "adjust"
IsKnownFilter(f) == f.name \in FilterNames

\* The place of a stage in the order adjustments, filters, noise
StageRank(e) == CASE e.op = "adjust" -> 1 [] e.op = "filter" -> 2 [] OTHER -> 3

\* C11: has_pending_changes() is true exactly when an adjustment differs from
\* its own neutral default (100 for gamma, 0 for the others), or the filter
\* stack is non-empty, or the noise intensity is above 0.
C11_PendingIff ==
    HasPendingChanges(Self) <=>
        \/ \E k \in AdjustmentKeySet : adjustments[k] # DefaultAdjustments[k]
        \/ filters # <<>>
        \/ noise_params.intensity > 0

\* C12: set_adjustment with an unknown key, set_filter with an unknown filter
\* name and set_noise_params with an unknown key or an unknown noise type
\* return normally and leave adjustments, filter stack, noise parameters and
\* has_pending_changes as they were.
C12_InvalidNamesIgnored ==
    LET ignored == /\ last.ret = "none"
                   /\ Params(Self) = Params(before)
                   /\ HasPendingChanges(Self) = HasPendingChanges(before)
    IN  /\ (last.op = "set_adjustment" /\ call_args[1] \notin AdjustmentKeySet) => ignored
        /\ (last.op = "set_filter" /\ call_args[1] \notin FilterNames) => ignored
        /\ (last.op = "set_noise_params"
                /\ \/ ~(DOMAIN call_args[1] \subseteq NoiseKeys)
                   \/ /\ "type" \in DOMAIN call_args[1]
                      /\ call_args[1].type \notin NoiseTypes) => ignored

\* C13: the filter stack lists the filters in the order in which each became
\* active last, all with an intensity above 0, and the pipeline applies them
\* in that order; set_filter with intensity <= 0 removes the filter, a filter
\* that is not in the stack goes to the end, and a new intensity for a filter
\* in the stack keeps its place.
C13_FilterOrder ==
    /\ StackNames(filters) = activation
    /\ \A i \in 1..Len(filters) : filters[i].intensity > 0
    /\ \A seed \in NoiseSeeds :
          LET applied == SelectSeq(PipelineEdits(Self, preview_original, seed), IsFilterEdit)
              known == SelectSeq(filters, IsKnownFilter)
          IN  /\ [i \in 1..Len(applied) |-> applied[i].name]
                    = SelectSeq(activation, LAMBDA n : n \in FilterNames)
              /\ [i \in 1..Len(applied) |-> applied[i].args[1]]
                    = [i \in 1..Len(known) |-> known[i].intensity]
    /\ last.op = "set_filter" =>
          LET name == call_args[1]
              intensity == call_args[2]
              was == StackNames(before.filters)
          IN  IF intensity <= 0
              THEN StackNames(filters) = Without(was, {name})
              ELSE IF FilterIndex(before.filters, name) = 0
                   THEN /\ StackNames(filters) = Append(was, name)
                        /\ Last(filters).intensity = intensity
                   ELSE /\ StackNames(filters) = was
                        /\ filters[FilterIndex(before.filters, name)].intensity = intensity

\* A new intensity for the first of two active filters
C13_Witness ==
    /\ last.op = "set_filter"
    /\ call_args = <<"sepia", 80>>
    /\ before.filters = <<[name |-> "sepia", intensity |-> 60],
                          [name |-> "emboss", intensity |-> 40]>>
    /\ activation = <<"sepia", "emboss">>

\* C14: a pipeline run, on the preview or at full resolution, only adds to its
\* source, in the order adjustments, filters, noise: at most one adjustment
\* stage, one filter stage for each entry with intensity > 0, and at most one
\* noise stage, present only when the noise intensity is above 0.
C14_StageOrder ==
    /\ \A seed \in NoiseSeeds : \A source \in {preview_original, original} \ {None} :
          LET result == RunPipeline(Self, source, seed)
              e == PipelineEdits(Self, source, seed)
          IN  /\ SubSeq(result.px, 1, Len(source.px)) = source.px
              /\ \A i, j \in 1..Len(e) : i < j => StageRank(e[i]) <= StageRank(e[j])
              /\ Len(SelectSeq(e, IsAdjustEdit)) <= 1
              /\ Len(SelectSeq(e, IsNoiseEdit)) <= 1
              /\ Len(SelectSeq(e, IsNoiseEdit)) = 1 => noise_params.intensity > 0
              /\ Len(SelectSeq(e, IsFilterEdit))
                    = Cardinality({i \in 1..Len(filters) :
                                    filters[i].intensity > 0 /\ IsKnownFilter(filters[i])})
    /\ (last.op = "process_preview" /\ last.ret = "image")
          => \E seed \in NoiseSeeds :
                last.image = RunPipeline(before, before.preview_original, seed)
    /\ (last.op = "process_full_resolution" /\ last.ret = "image")
          => \E seed \in NoiseSeeds :
                last.image = RunPipeline(before, before.original, seed)

\* A preview run that went through an adjustment, two filters and the noise
C14_Witness ==
    /\ last.op = "process_preview"
    /\ last.ret = "image"
    /\ Len(last.image.px) = Len(preview_original.px) + 4
    /\ Last(last.image.px).op = "noise"

\* C15: process_preview and process_full_resolution change nothing of the
\* processor state but processed, and a call made right after another call of
\* the same method returns the image that call returned.
C15_ProcessIsPure ==
    /\ last.op \in {"process_preview", "process_full_resolution"}
          => Core(Self) = Core(before)
    /\ (last.op \in {"process_preview", "process_full_resolution"}
            /\ last.prev = last.op /\ last.ret = "image")
          => last.image = before.processed

----------------------------------------------------------------------------
(* Claims about the worker next to the caller, checked under SpecWorker *)

\* C16: a preview run of the worker never fails, and what it returns is the
\* pipeline applied to its source with the adjustments, the filter stack and
\* the noise parameters as they all were at one instant of the run, whatever
\* the caller thread sets in the meantime.
C16_ConsistentSnapshot ==
    \A w \in LoopIds :
        /\ loops[w].outcome # "error"
        /\ loops[w].outcome \in {"finished", "dropped"}
            => \E p \in loops[w].instants : \E seed \in NoiseSeeds :
                    loops[w].result = RunPipeline(p, loops[w].source, seed)

\* C17: no save_image, apply_current_changes, undo, redo, load or transform on
\* the caller thread is made while a preview run of the worker is in flight.
C17_NoOverlap == overlap = {}

----------------------------------------------------------------------------
(* Claims about the worker's scheduling, checked under SpecSchedule and,   *)
(* for what must happen in the end, under SpecScheduleLive                 *)

\* The thread has been started
Started == \E w \in LoopIds : loops[w].pc # "idle"

\* C18: at most one execution of process() is alive, and so at most one preview
\* run is in flight at any time.
C18_OneRunInFlight ==
    /\ Cardinality({w \in LoopIds : IsRunning(loops[w])}) <= 1
    /\ Cardinality({w \in LoopIds : InFlight(loops[w])}) <= 1

\* A second preview run in flight, the first one having returned
C18_Witness ==
    /\ runs = 2
    /\ SomeInFlight

\* C19: the requests made between two moments at which the worker takes the
\* flag, however many, are taken together, once: the flag is up exactly while
\* such requests wait to be taken, the worker takes it only then, and there
\* are never more runs than takes, takes than groups of requests, or groups
\* than requests.
C19_Coalescing ==
    /\ runs <= Takes
    /\ Takes <= batches
    /\ batches <= Takes + 1
    /\ batches <= requests
    /\ has_task <=> batches = Takes + 1

\* Two requests that one run has answered
C19_Witness ==
    /\ requests = 2
    /\ batches = 1
    /\ runs = 1
    /\ ~has_task

\* C20: once the thread is started, every request is followed by a call of
\* process_preview made after it, unless the worker is stopped.
C20_NoLostRequest ==
    (unserved # {} /\ Started) ~> (unserved = {} \/ ~running)

\* A run begun for a request that came while the run before it was in flight
C20_Witness ==
    /\ served = {"inflight"}
    /\ runs = 2
    /\ SomeInFlight
    /\ running

----------------------------------------------------------------------------
(* Claims about the worker's notifications, checked under SpecSchedule,    *)
(* SpecScheduleLive and, with runs that fail, SpecFailure                  *)

\* The places of the log that hold a notification of one signal
SignalsOf(name) == {i \in 1..Len(signals) : signals[i].name = name}

\* C21: once stop() has been called, no processing_finished is emitted: the
\* result of a run that was in flight at that moment is dropped.
C21_NoFinishedAfterStop ==
    \A i \in SignalsOf("processing_finished") : ~signals[i].stopped

\* No execution of process() is alive
Exited == \A w \in LoopIds : ~IsRunning(loops[w])

\* C22: after stop() the loop of process() exits in the end, wherever it
\* stood; a run in flight is not cut short, it goes on to its return; and once
\* stop() has been called no request is taken any more, so one still pending
\* when the loop sees the stop is never run.
C22_StopExits ==
    /\ ~running ~> Exited
    /\ [][\A w \in LoopIds :
            InFlight(loops[w]) /\ loops'[w] # loops[w]
                => loops'[w].pc \in InFlightPcs \cup {"emit", "loop"}]_vars
    /\ [][~running => Takes' = Takes]_vars

\* The loop has exited after a stop that came during its run, with a request
\* left pending
C22_Witness ==
    /\ ~running
    /\ Exited
    /\ has_task
    /\ runs = 1
    /\ \E w \in LoopIds : loops[w].pc = "done"

\* The notifications of one signal that a run has emitted
SignalsOfRun(name, r) == {i \in SignalsOf(name) : signals[i].run = r}

\* C23: a run that fails emits error_occurred once and processing_finished
\* not at all, the loop goes on after it, and a request made later is
\* followed by a new run, unless the worker is stopped.
C23_FailureReported ==
    /\ [](\A w \in LoopIds :
            loops[w].outcome = "error"
                => /\ Cardinality(SignalsOfRun("error_occurred", loops[w].run)) = 1
                   /\ SignalsOfRun("processing_finished", loops[w].run) = {}
                   /\ loops[w].pc = "loop")
    /\ [](\A r \in 1..runs :
            /\ Cardinality(SignalsOfRun("error_occurred", r)) <= 1
            /\ SignalsOfRun("error_occurred", r) # {}
                   => SignalsOfRun("processing_finished", r) = {})
    /\ (SignalsOf("error_occurred") # {} /\ unserved # {})
            ~> (unserved = {} \/ ~running)

\* A second run, begun after the first one failed, for a request made after
\* the failure
C23_Witness ==
    /\ SignalsOfRun("error_occurred", 1) # {}
    /\ runs = 2
    /\ served = {"waiting"}
    /\ SomeInFlight

\* The signals that end a run
Ending == {"processing_finished", "error_occurred"}

\* C29: every run of the pipeline is announced by one processing_started,
\* emitted before it; a processing_finished or an error_occurred comes right
\* after the processing_started of its own run, so that between two
\* processing_started there is at most one of the two, never both.
C29_Protocol ==
    /\ \A r \in 1..runs : Cardinality(SignalsOfRun("processing_started", r)) = 1
    /\ \A w \in LoopIds :
          InFlight(loops[w]) => SignalsOfRun("processing_started", loops[w].run) # {}
    /\ \A i \in 1..Len(signals) :
          signals[i].name \in Ending
              => /\ i > 1
                 /\ signals[i - 1].name = "processing_started"
                 /\ signals[i - 1].run = signals[i].run

\* A run that failed and a run that finished, each after its announcement
C29_Witness ==
    /\ Len(signals) = 4
    /\ signals[2].name = "error_occurred"
    /\ signals[4].name = "processing_finished"

----------------------------------------------------------------------------
(* Claims about what the canvas shows, checked under SpecCanvas *)

\* C30: what the canvas shows is derived from the current original: the
\* result of a run that began before original was replaced is not handed to
\* the canvas after the replacement.
C30_NoStalePreview == canvas.epoch = commits

----------------------------------------------------------------------------
(* Claims about TransformEngine.crop, checked under SpecCrop *)

\* The part of an image that the rectangle [x, x+width) x [y, y+height)
\* covers, or the image itself when the rectangle covers none or all of it
Intersection(image, x, y, width, height) ==
    LET x1 == Max(x, 0)
        y1 == Max(y, 0)
        x2 == Min(x + width, image.w)
        y2 == Min(y + height, image.h)
    IN  IF width <= 0 \/ height <= 0 \/ x2 <= x1 \/ y2 <= y1 THEN image
        ELSE IF x1 = 0 /\ y1 = 0 /\ x2 = image.w /\ y2 = image.h THEN image
        ELSE Img(x2 - x1, y2 - y1, Append(image.px, Edit("crop", "", <<x1, y1, x2, y2>>)))

\* C24: crop gives the part of the image that the rectangle asked for covers,
\* and a copy of the whole image when the rectangle is empty or lies outside
\* the image; it never gives an empty image.
C24_CropIsIntersection ==
    last.op = "apply_crop"
        => /\ original = Intersection(before.original, call_args[1], call_args[2],
                                      call_args[3], call_args[4])
           /\ original.w >= 1
           /\ original.h >= 1

----------------------------------------------------------------------------
(* Claims about FilterEngine on one sample, checked under SpecSample *)

\* C25: no sample of a filter's output wraps around modulo 256: posterize
\* gives min(255, (v div step) * step + step div 2), which does not decrease
\* as v grows, and emboss gives the convolution plus 128, clamped into 0..255.
C25_NoWrap ==
    /\ engine_call.routine = "posterize" /\ engine_call.returned
          => LET step == PosterizeStep(engine_call.intensity)
             IN  /\ engine_call.filtered =
                        Min(Uint8Max, (engine_call.v \div step) * step + step \div 2)
                 /\ \A u \in 0..engine_call.v :
                        Posterized(u, engine_call.intensity) <= engine_call.filtered
    /\ engine_call.routine = "emboss" /\ engine_call.returned
          => engine_call.filtered = Saturate(engine_call.convolution + 128)

----------------------------------------------------------------------------
(* Claims about the routines on an image, checked under SpecRoutine *)

\* The parameters that change nothing
Neutral(p) ==
    /\ p.adjustments = DefaultAdjustments
    /\ p.filters = <<>>
    /\ p.noise_params.intensity = 0

\* C26: a filter or a noise routine called with an intensity of 0 or less
\* returns another array that holds the image it was given, and leaves the
\* array it was given as it was; the pipeline run on neutral adjustments, no
\* filter and noise at 0 returns an image equal to its source.
C26_IdentityAtZero ==
    engine_call.returned
        => /\ engine_call.routine \in {"filter", "noise"} /\ engine_call.intensity <= 0
                 => /\ engine_call.result.image = engine_call.given.image
                    /\ engine_call.result.id # engine_call.given.id
                    /\ engine_call.given_after = engine_call.given
           /\ engine_call.routine = "pipeline" /\ Neutral(engine_call.params)
                 => engine_call.result.image = engine_call.given.image

\* A filter that the program knows has returned from a call at intensity 0
C26_Witness ==
    /\ engine_call.returned
    /\ engine_call.routine = "filter"
    /\ engine_call.name = "posterize"
    /\ engine_call.intensity = 0

----------------------------------------------------------------------------
(* Claims about the preview and the history of ImageProcessor, checked     *)
(* under Spec                                                              *)

\* The operations that set or replace original
Replacing ==
    {"load_image", "apply_resize", "apply_rotation", "apply_flip", "apply_crop",
     "apply_current_changes", "undo", "redo"}

\* C27: after an operation that sets or replaces original, the preview is
\* the one derived from the original in place, it is at least 1 and at most
\* PREVIEW_MAX_WIDTH wide, at least 1 and at most PREVIEW_MAX_HEIGHT high,
\* and it equals original when original fits already.
C27_PreviewBound ==
    (last.op \in Replacing /\ original # None)
        => /\ preview_original = CreatePreview(original)
           /\ preview_original.w \in 1..PREVIEW_MAX_WIDTH
           /\ preview_original.h \in 1..PREVIEW_MAX_HEIGHT
           /\ FitsPreview(original) => preview_original = original

\* C28: with an image loaded, after every operation of the editor original is
\* the newest entry of the undo stack, and the undo stack is not empty.
C28_OriginalIsNewest ==
    original # None
        => /\ undo_stack # <<>>
           /\ original = Last(undo_stack)

====
